---- MODULE Spec2Model ----
(***************************************************************************)
(* State-machine model of hedge_dashboard_v2.py, a Streamlit script.       *)
(* A step of the machine is one user interaction: the script is run from   *)
(* top to bottom with the widget values of that interaction, and what      *)
(* survives between runs is st.session_state.  Floats are modelled as      *)
(* exact rationals <<numerator, denominator>> in lowest terms.  A run is   *)
(* modelled by its sidebar, tab 1 and tab 5 parts, the Hedge Effectiveness *)
(* column of tab 2 and the Volatility Bid input of tab 3; the charts, the  *)
(* forward curve and the spread table are left out.                        *)
(***************************************************************************)
EXTENDS Integers, Sequences, FiniteSets, TLC

VARIABLES
    position_data_editor,   \* st.session_state.position_data_editor (table, last row "Total")
    position_size_tons,     \* st.session_state.position_size_tons   (Unset until first update)
    avg_holding_price,      \* st.session_state.avg_holding_price
    current_funds_usd,      \* st.session_state.current_funds_usd
    current_margin_usd,     \* st.session_state.current_margin_usd
    current_pnl_usd,        \* st.session_state.current_pnl_usd
    available_quota_usd,    \* st.session_state.available_quota_usd
    funding_limit_usd,      \* st.session_state.funding_limit_usd
    lme_margin_per_lot_usd, \* st.session_state.lme_margin_per_lot_usd
    lme_tons_per_lot,       \* st.session_state.lme_tons_per_lot
    report_data,            \* st.session_state.report_data (a dict: function on its keys)
    tab5_out,               \* locals of the Calculate Plan block in the latest run (None if not clicked)
    pricer_in,              \* arguments of the latest black_price call
    pricer_out,             \* value returned by the latest black_price call
    capital_state,          \* CapitalState of the latest margin-call evaluation
    vol_bid_tmp,            \* st.session_state.vol_bid_tmp
    hedge_ratio,            \* value of the sidebar's Hedging Ratio slider
    tab2_out                \* locals of tab 2's Hedge Effectiveness column in the latest run

vars == << position_data_editor, position_size_tons, avg_holding_price,
           current_funds_usd, current_margin_usd, current_pnl_usd,
           available_quota_usd, funding_limit_usd, lme_margin_per_lot_usd,
           lme_tons_per_lot, report_data, tab5_out, pricer_in, pricer_out,
           capital_state, vol_bid_tmp, hedge_ratio, tab2_out >>

position_vars == << position_size_tons, avg_holding_price, current_funds_usd,
                    current_margin_usd, current_pnl_usd, available_quota_usd >>

lme_vars == << lme_margin_per_lot_usd, lme_tons_per_lot >>

pricer_vars == << pricer_in, pricer_out >>

tab2_vars == << vol_bid_tmp, hedge_ratio, tab2_out >>

-----------------------------------------------------------------------------
(* Exact rational arithmetic standing for Python/NumPy float arithmetic.   *)

Abs(n) == IF n < 0 THEN -n ELSE n

RECURSIVE GCD(_, _)
GCD(a, b) == IF b = 0 THEN a ELSE GCD(b, a % b)

Q(n, d) ==
    LET g == GCD(Abs(n), d) IN << n \div g, d \div g >>

Zero == << 0, 1 >>

RAdd(x, y) ==
    LET l == (x[2] \div GCD(x[2], y[2])) * y[2]
    IN  Q(x[1] * (l \div x[2]) + y[1] * (l \div y[2]), l)

RNeg(x) == << -x[1], x[2] >>

RSub(x, y) == RAdd(x, RNeg(y))

RMul(x, y) ==
    LET g1 == GCD(Abs(x[1]), y[2])
        g2 == GCD(Abs(y[1]), x[2])
    IN  << (x[1] \div g1) * (y[1] \div g2), (x[2] \div g2) * (y[2] \div g1) >>

\* x / y for y # 0
RDiv(x, y) ==
    RMul(x, IF y[1] > 0 THEN << y[2], y[1] >> ELSE << -y[2], -y[1] >>)

RLt(x, y) == RSub(x, y)[1] < 0

RLe(x, y) == RSub(x, y)[1] <= 0

RAbs(x) == << Abs(x[1]), x[2] >>

RMax(x, y) == IF RLt(x, y) THEN y ELSE x

-----------------------------------------------------------------------------
(* Session-state attributes that may be absent.                            *)

Unset == << >>

None == << >>

\* Slip: an attribute not yet set is read as the total tons of the default
\* table instead of 0.
getattr_default_table(attr) == IF attr = Unset THEN << 9500, 1 >> ELSE attr

\* getattr(st.session_state, name, 0)
getattr(attr) == IF attr = Unset THEN Zero ELSE attr

-----------------------------------------------------------------------------
(* Position table.                                                         *)

Row(account, tons, price, balance, credit, float, margin, pnl) ==
    [ Account |-> account, Tons |-> tons, HoldingPrice |-> price,
      BalanceFunds |-> balance, OpenPositionLimit |-> credit,
      VariableMargin |-> float, InitialMargin |-> margin,
      UnrealizedPnL |-> pnl ]

default_position_data ==
    << Row("CIFCO (Mid)", Q(3000, 1), Q(1000659, 100), Q(4840000, 1), Zero,
           Zero, Q(2500000, 1), Q(-170000, 1)),
       Row("SUCDEN", Zero, Zero, Q(200000, 1), Zero, Zero, Zero, Zero),
       Row("MAREX", Q(6500, 1), Q(982941, 100), Q(6770000, 1), Q(3000000, 1),
           Q(50000, 1), Q(4070000, 1), Q(-1330000, 1)),
       Row("Total", Q(9500, 1), Q(988536, 100), Q(11810000, 1), Q(3000000, 1),
           Q(50000, 1), Q(6570000, 1), Q(-1500000, 1)) >>

\* Bound of the model: the data editor accepts a new row only while the
\* edited table has fewer rows than this.
MaxRows == 3

\* Rows a user types into the data editor (besides the default accounts):
\* a short position, i.e. negative tons, which the editor does not refuse.
RowChoices ==
    { Row("HEDGE", Q(-3000, 1), Q(9000, 1), Q(1000000, 1), Q(500000, 1),
          Q(-20000, 1), Q(2400000, 1), Q(250000, 1)) }

\* Slip: the first row is dropped instead of the last.
Front_drops_first(df) == Tail(df)

Front(df) == SubSeq(df, 1, Len(df) - 1)

Last(df) == df[Len(df)]

RemoveAt(df, i) == SubSeq(df, 1, i - 1) \o SubSeq(df, i + 1, Len(df))

\* The edits the user can make in st.data_editor(num_rows="dynamic").
Edits(df) ==
    { [ op |-> "none", i |-> 0, row |-> None ] }
    \cup { [ op |-> "delete", i |-> i, row |-> None ] : i \in 1..Len(df) }
    \cup { [ op |-> "edit", i |-> i, row |-> r ] : i \in 1..Len(df), r \in RowChoices }
    \cup { [ op |-> "add", i |-> 0, row |-> r ] :
             r \in IF Len(df) < MaxRows THEN RowChoices ELSE {} }

\* st.data_editor: the table it is given with the user's edit applied.
data_editor(df, e) ==
    CASE e.op = "none"   -> df
      [] e.op = "delete" -> RemoveAt(df, e.i)
      [] e.op = "edit"   -> [ df EXCEPT ![e.i] = e.row ]
      [] e.op = "add"    -> Append(df, e.row)

\* df[col].sum()
RECURSIVE ColSum(_, _)
ColSum(df, col) ==
    IF df = << >> THEN Zero ELSE RAdd(df[1][col], ColSum(Tail(df), col))

\* (df['Tons'] * df['Holding Price (USD/ton)']).sum()
RECURSIVE ValueSum(_)
ValueSum(df) ==
    IF df = << >> THEN Zero
    ELSE RAdd(RMul(df[1].Tons, df[1].HoldingPrice), ValueSum(Tail(df)))

\* Slip: the 'Total' row is not dropped before editing.
editable_df_with_total == position_data_editor

\* Exclude the 'Total' row for editing.
editable_df == Front(position_data_editor)

total_tons(edited_df) == ColSum(edited_df, "Tons")

\* Slip: the division is guarded by total_tons != 0 instead of > 0.
total_avg_price_nonzero_guard(edited_df) ==
    IF total_tons(edited_df) # Zero
    THEN RDiv(ValueSum(edited_df), total_tons(edited_df))
    ELSE Zero

\* Weighted average price calculation.
total_avg_price(edited_df) ==
    IF RLt(Zero, total_tons(edited_df))
    THEN RDiv(ValueSum(edited_df), total_tons(edited_df))
    ELSE Zero

total_row(edited_df) ==
    Row("Total", total_tons(edited_df), total_avg_price(edited_df),
        ColSum(edited_df, "BalanceFunds"), ColSum(edited_df, "OpenPositionLimit"),
        ColSum(edited_df, "VariableMargin"), ColSum(edited_df, "InitialMargin"),
        ColSum(edited_df, "UnrealizedPnL"))

\* pd.concat([edited_df, total_row], ignore_index=True)
updated_df(edited_df) == Append(edited_df, total_row(edited_df))

\* Slip: the variable margin is left out of the current funds.
total_funds_without_float(edited_df) ==
    RAdd(ColSum(edited_df, "BalanceFunds"), ColSum(edited_df, "OpenPositionLimit"))

\* st.session_state.current_funds_usd = total_balance + total_credit + total_float
total_funds(edited_df) ==
    RAdd(RAdd(ColSum(edited_df, "BalanceFunds"),
              ColSum(edited_df, "OpenPositionLimit")),
         ColSum(edited_df, "VariableMargin"))

-----------------------------------------------------------------------------
(* Sidebar and tab 1: what every script run does.                          *)

\* Values the user can enter in "Funding Limit (Million USD)" (min_value=0.0).
FundingLimitInputs == { Q(146, 5), Zero }

\* st.session_state.funding_limit_usd = funding_limit_millions * 1_000_000.0
limit_usd(funding_limit_millions) == RMul(funding_limit_millions, Q(1000000, 1))

\* Funding limits entered to exercise the funding check of tab 1: the
\* default, zero, the funds of the default position and a little above them.
FundingLimitSteps == { Q(146, 5), Zero, Q(743, 50), Q(16, 1) }

\* (current_funds_usd / funding_limit_usd) * 100 if funding_limit_usd > 0 else 0
utilization(funds, limit) ==
    IF RLt(Zero, limit) THEN RMul(RDiv(funds, limit), Q(100, 1)) ELSE Zero

\* Slip: the high-utilization test is an if of its own, not an elif.
funding_banners_two_ifs(funds, limit) ==
    (IF RLt(limit, funds) THEN << "ALERT" >> ELSE << >>)
    \o (IF RLt(Q(90, 1), utilization(funds, limit))
        THEN << "Warning" >> ELSE << "Within limits" >>)

\* Funding Limit Check: the banners a run shows under the metrics of tab 1.
funding_banners(funds, limit) ==
    IF RLt(limit, funds) THEN << "ALERT" >>
    ELSE IF RLt(Q(90, 1), utilization(funds, limit)) THEN << "Warning" >>
    ELSE << "Within limits" >>

\* Slip: the dict is replaced by the new entries instead of updated.
dict_update_replace(old, d) == d

\* dict.update / item assignment: the entries of d replace those of old.
dict_update(old, d) == d @@ old

\* create_pdf_report / create_excel_report: the planning section of the
\* exported report, None when the report has none.
planning_section(data) ==
    IF "planning_scenario" \in DOMAIN data THEN data.planning_scenario ELSE None

\* st.session_state.get(name, default)
session_get(attr, default) == IF attr = Unset THEN default ELSE attr

\* Default of the Volatility Bid input and of the read of vol_bid_tmp: 17.92
VolBidDefault == Q(448, 25)

\* Volatility Bid values (%) the user enters in tab 3.
VolBids == { Q(448, 25), Q(25, 1) }

\* Hedging Ratio slider positions.
HedgeRatios == { Q(1, 2), Q(1, 1) }

\* Hedge Effectiveness: calculate risk reduction (simplified)
tab2(size, tons_per_lot, margin_per_lot, vol_bid, ratio) ==
    LET lots_current   == RDiv(size, tons_per_lot)
        current_risk   == RMul(RMul(lots_current, margin_per_lot),
                               RDiv(vol_bid, Q(100, 1)))
        hedged_risk    == RMul(current_risk, RSub(Q(1, 1), ratio))
        risk_reduction == RSub(current_risk, hedged_risk)
    IN  [ vol_bid        |-> vol_bid,
          current_risk   |-> current_risk,
          hedged_risk    |-> hedged_risk,
          risk_reduction |-> risk_reduction ]

\* st.session_state.report_data.update({...}) of tab 2 (hedge_tenor and
\* margin_reduction, which depend on the forward curve, are left out)
tab2_report(out, ratio, price) ==
    [ hedge_ratio        |-> ratio,
      risk_reduction     |-> out.risk_reduction,
      hedged_margin_call |-> getattr(price) ]

\* st.session_state.report_data.update({...}) of tab 1
tab1_report(size, price, funds, margin, pnl, limit) ==
    [ position_size_tons |-> getattr(size),
      avg_holding_price  |-> getattr(price),
      current_funds_usd  |-> getattr(funds),
      current_margin_usd |-> getattr(margin),
      current_pnl_usd    |-> getattr(pnl),
      funding_limit_usd  |-> limit ]

-----------------------------------------------------------------------------
(* Tab 5: Future Position Planning.                                        *)

\* Values the user can enter in "Target Price (USD/ton)" and
\* "Additional Tons" (min_value=0.0); the first of each is the default.
TargetPrices == { Q(10130, 1), Q(9000, 1) }

AdditionalTons == { Q(500, 1), Zero }

\* Slip: the additional tons are left out of the new total.
new_total_tons_without_additional(size, additional_tons) == size

new_total_tons(size, additional_tons) == RAdd(size, additional_tons)

\* Slip: the plain mean of the two prices instead of the weighted average.
new_avg_price_unweighted(size, price, additional_tons, target_price) ==
    IF RLt(Zero, new_total_tons(size, additional_tons))
    THEN RDiv(RAdd(price, target_price), Q(2, 1))
    ELSE price

\* New Average Price (Weighted Average)
new_avg_price(size, price, additional_tons, target_price) ==
    IF RLt(Zero, new_total_tons(size, additional_tons))
    THEN RDiv(RAdd(RMul(size, price), RMul(additional_tons, target_price)),
              new_total_tons(size, additional_tons))
    ELSE price

\* Slip: the margin per lot is charged per ton, the tons are not converted
\* to lots.
new_margin_usd_per_ton(total, tons_per_lot, margin_per_lot) ==
    RMul(total, margin_per_lot)

\* New Margin Requirement (based on LME rules)
new_margin_usd(total, tons_per_lot, margin_per_lot) ==
    RMul(RDiv(total, tons_per_lot), margin_per_lot)

\* Estimated PnL for the entire new position at the target price
estimated_pnl_usd(target_price, avg, total) ==
    RMul(RSub(target_price, avg), total)

\* Slip: the estimated PnL is added to the margin.
required_funds_usd_plus_pnl(margin, pnl) == RAdd(margin, pnl)

required_funds_usd(margin, pnl) == RSub(margin, pnl)

\* Slip: the estimated PnL is added back instead of subtracted.
remaining_funds_usd_plus_pnl(funds, margin, pnl) == RAdd(RSub(funds, margin), pnl)

remaining_funds_usd(funds, margin, pnl) == RSub(RSub(funds, margin), pnl)

\* The messages collected by the feasibility check (texts without their
\* leading check-mark and cross symbols).
messages(required, remaining, limit) ==
    (IF RLt(limit, required)
     THEN << "Required funds exceed the funding limit." >> ELSE << >>)
    \o (IF RLt(remaining, Zero)
        THEN << "Plan would result in negative available funds." >> ELSE << >>)

\* Slip: required funds equal to the limit are counted as exceeding it.
is_feasible_strict(required, remaining, limit) ==
    ~ (RLe(limit, required) \/ RLt(remaining, Zero))

is_feasible(required, remaining, limit) ==
    ~ (RLt(limit, required) \/ RLt(remaining, Zero))

\* Slip: the message of an infeasible plan is built from the reasons alone.
feasibility_message_reasons_only(required, remaining, limit) ==
    IF is_feasible(required, remaining, limit)
    THEN << "Plan is feasible." >>
    ELSE messages(required, remaining, limit)

feasibility_message(required, remaining, limit) ==
    IF is_feasible(required, remaining, limit)
    THEN << "Plan is feasible." >>
    ELSE << "Plan is NOT feasible." >> \o messages(required, remaining, limit)

\* One row of the verification against the Excel sample: TRUE when the
\* calculated value is within max(1%, 1 USD) of the Excel value.
excel_match(calc_val, excel_val) ==
    LET tolerance == RMax(RMul(RAbs(excel_val), Q(1, 100)), Q(1, 1))
    IN  ~ RLt(tolerance, RAbs(RSub(calc_val, excel_val)))

excel_checks(total, avg, margin, pnl, required, remaining) ==
    << << total, Q(10000, 1) >>, << avg, Q(989759, 100) >>,
       << margin, Q(8000000, 1) >>, << pnl, Q(2320000, 1) >>,
       << required, Q(5680000, 1) >>, << remaining, Q(4540000, 1) >> >>

\* "shown" only for the sample inputs ($10,130, 500 tons); then all_match.
verification(target_price, additional_tons, checks) ==
    IF RLt(RAbs(RSub(target_price, Q(10130, 1))), Q(1, 10))
       /\ RLt(RAbs(RSub(additional_tons, Q(500, 1))), Q(1, 10))
    THEN [ shown |-> TRUE,
           all_match |-> \A k \in 1..Len(checks) :
                             excel_match(checks[k][1], checks[k][2]) ]
    ELSE [ shown |-> FALSE, all_match |-> FALSE ]

\* The locals of the "Calculate Plan" block for the given inputs.
plan(size, price, funds, limit, tons_per_lot, margin_per_lot, target_price, additional_tons) ==
    LET total     == new_total_tons(size, additional_tons)
        avg       == new_avg_price(size, price, additional_tons, target_price)
        margin    == new_margin_usd(total, tons_per_lot, margin_per_lot)
        pnl       == estimated_pnl_usd(target_price, avg, total)
        required  == required_funds_usd(margin, pnl)
        remaining == remaining_funds_usd(funds, margin, pnl)
    IN  [ position_size_tons  |-> size,
          avg_holding_price   |-> price,
          current_funds_usd   |-> funds,
          funding_limit_usd   |-> limit,
          target_price        |-> target_price,
          additional_tons     |-> additional_tons,
          new_total_tons      |-> total,
          new_avg_price       |-> avg,
          new_margin_usd      |-> margin,
          estimated_pnl_usd   |-> pnl,
          required_funds_usd  |-> required,
          remaining_funds_usd |-> remaining,
          is_feasible         |-> is_feasible(required, remaining, limit),
          feasibility_message |-> feasibility_message(required, remaining, limit),
          verification        |-> verification(target_price, additional_tons,
                                     excel_checks(total, avg, margin, pnl,
                                                  required, remaining)) ]

\* st.session_state.report_data['planning_scenario'] = {...}
planning_scenario(p) ==
    [ target_price        |-> p.target_price,
      additional_tons     |-> p.additional_tons,
      new_total_tons      |-> p.new_total_tons,
      new_avg_price       |-> p.new_avg_price,
      required_funds_usd  |-> p.required_funds_usd,
      remaining_funds_usd |-> p.remaining_funds_usd,
      feasibility         |-> p.feasibility_message ]

-----------------------------------------------------------------------------
(* black_price: Black model for futures options.                           *)
(* Arguments are decimal numbers <<m, e>> standing for m * 10^e with       *)
(* |m| < 10^4, so that EPSILON = 1e-10 and ordinary market values are both *)
(* representable.  Past the degenerate-input test the function is computed *)
(* in fixed point with four decimals (1 is written 10000), extended with   *)
(* NumPy's inf and nan: a value is <<"num", v>>, <<"inf", +-1>> or         *)
(* <<"nan", 0>>.                                                           *)

EPSILON == << 1, -10 >>

RECURSIVE Pow10(_)
Pow10(k) == IF k = 0 THEN 1 ELSE 10 * Pow10(k - 1)

\* x <= y on decimal numbers
DLe(x, y) ==
    LET d == x[2] - y[2]
    IN  IF d >= 0
        THEN IF d > 4
             THEN (IF x[1] = 0 THEN 0 <= y[1] ELSE x[1] < 0)
             ELSE x[1] * Pow10(d) <= y[1]
        ELSE IF -d > 4
             THEN (IF y[1] = 0 THEN x[1] <= 0 ELSE y[1] > 0)
             ELSE x[1] <= y[1] * Pow10(-d)

SCALE == Pow10(4)

\* Integer division rounding toward zero.
Quot(a, b) ==
    IF (a >= 0) = (b > 0) THEN Abs(a) \div Abs(b) ELSE -(Abs(a) \div Abs(b))

\* The fixed-point value of a decimal number (digits below 1e-4 are lost).
ToFix(x) ==
    IF x[2] + 4 >= 0 THEN x[1] * Pow10(x[2] + 4)
    ELSE IF -(x[2] + 4) > 4 THEN 0
    ELSE Quot(x[1], Pow10(-(x[2] + 4)))

Num(v) == << "num", v >>

PosInf == << "inf", 1 >>

NegInf == << "inf", -1 >>

NaN == << "nan", 0 >>

Sign(v) == IF v > 0 THEN 1 ELSE IF v < 0 THEN -1 ELSE 0

\* a * b / SCALE for fixed-point a, b without overflowing 32 bits
FMul(a, b) ==
    LET s == Sign(a) * Sign(b)
        x == Abs(a)
        y == Abs(b)
    IN  s * ((x \div SCALE) * y + ((x % SCALE) * y) \div SCALE)

XAdd(a, b) ==
    CASE a[1] = "nan" \/ b[1] = "nan" -> NaN
      [] a[1] = "inf" /\ b[1] = "inf" -> IF a[2] = b[2] THEN a ELSE NaN
      [] a[1] = "inf" -> a
      [] b[1] = "inf" -> b
      [] OTHER -> Num(a[2] + b[2])

XNeg(a) == IF a[1] = "nan" THEN NaN ELSE << a[1], -a[2] >>

XSub(a, b) == XAdd(a, XNeg(b))

\* a / b as NumPy divides float64 values (a zero divisor gives inf or nan)
XDiv(a, b) ==
    CASE a[1] = "nan" \/ b[1] = "nan" -> NaN
      [] a[1] = "inf" /\ b[1] = "inf" -> NaN
      [] b[1] = "inf" -> Num(0)
      [] a[1] = "inf" -> << "inf", IF b[2] < 0 THEN -a[2] ELSE a[2] >>
      [] b[2] = 0 -> IF a[2] = 0 THEN NaN ELSE << "inf", Sign(a[2]) >>
      [] OTHER -> Num(Quot(a[2] * SCALE, b[2]))

\* np.sqrt on a fixed-point value
RECURSIVE ISqrt(_, _, _)
ISqrt(v, lo, hi) ==
    IF lo >= hi THEN lo
    ELSE LET mid == (lo + hi + 1) \div 2
         IN  IF mid * mid <= v THEN ISqrt(v, mid, hi) ELSE ISqrt(v, lo, mid - 1)

FSqrt(t) == IF t < 0 THEN NaN ELSE Num(ISqrt(t * SCALE, 0, 46340))

\* np.log(S / K) for fixed-point S and K # 0, by the series
\* ln(S/K) = 2 (z + z^3/3 + z^5/5 + z^7/7) with z = (S - K) / (S + K)
FLog(S, K) ==
    IF (S > 0) # (K > 0) /\ S # 0 THEN NaN
    ELSE IF S = 0 THEN NegInf
    ELSE LET z  == Quot(Abs(S) - Abs(K), (Abs(S) + Abs(K) + SCALE - 1) \div SCALE)
             z2 == FMul(z, z)
             z3 == FMul(z2, z)
             z5 == FMul(z3, z2)
             z7 == FMul(z5, z2)
         IN  Num(2 * (z + Quot(z3, 3) + Quot(z5, 5) + Quot(z7, 7)))

\* np.exp(x) for a fixed-point x near 0, by its Taylor polynomial of degree 4
FExp(x) ==
    LET x2 == FMul(x, x)
        x3 == FMul(x2, x)
        x4 == FMul(x3, x)
    IN  SCALE + x + Quot(x2, 2) + Quot(x3, 6) + Quot(x4, 24)

\* norm.cdf at 0.0, 0.1, ..., 4.0
CdfTable ==
    << 5000, 5398, 5793, 6179, 6554, 6915, 7257, 7580, 7881, 8159,
       8413, 8643, 8849, 9032, 9192, 9332, 9452, 9554, 9641, 9713,
       9772, 9821, 9861, 9893, 9918, 9938, 9953, 9965, 9974, 9981,
       9987, 9990, 9993, 9995, 9997, 9998, 9998, 9999, 9999, 10000, 10000 >>

\* norm.cdf(x) for x >= 0, interpolated in the table
CdfPos(v) ==
    IF v >= 4 * SCALE THEN SCALE
    ELSE LET k == v \div 1000
             f == v % 1000
         IN  CdfTable[k + 1] + ((CdfTable[k + 2] - CdfTable[k + 1]) * f) \div 1000

\* norm.cdf on an extended value
FCdf(x) ==
    CASE x[1] = "nan" -> NaN
      [] x[1] = "inf" -> IF x[2] > 0 THEN Num(SCALE) ELSE Num(0)
      [] OTHER -> IF x[2] >= 0 THEN Num(CdfPos(x[2]))
                  ELSE Num(SCALE - CdfPos(-x[2]))

\* s * n for a fixed-point price s and an extended probability n
XScale(s, n) == IF n[1] = "nan" THEN NaN ELSE Num(FMul(s, n[2]))

\* The value black_price returns, with a note of whether a division by zero
\* was evaluated on the way.
Return(price, delta, zero_division) ==
    [ price |-> price, delta |-> delta, zero_division |-> zero_division ]

\* Slip: only the expiry is tested, a zero volatility reaches the division.
degenerate_expiry_only(T, sigma) == DLe(T, EPSILON)

\* if T <= EPSILON or sigma <= EPSILON
degenerate(T, sigma) == DLe(T, EPSILON) \/ DLe(sigma, EPSILON)

\* Slip: the put price takes norm.cdf(d2) where it needs norm.cdf(-d2).
black_price_put_d2(S, K, T, r, sigma, option_type) ==
    IF degenerate(T, sigma) THEN Return(Num(0), Num(0), FALSE)
    ELSE IF ToFix(K) = 0 THEN Return(Num(0), Num(0), TRUE)  \* ZeroDivisionError caught
    ELSE
      LET s    == ToFix(S)
          k    == ToFix(K)
          sig  == ToFix(sigma)
          t    == ToFix(T)
          vol  == IF FSqrt(t)[1] = "nan" THEN NaN ELSE Num(FMul(sig, FSqrt(t)[2]))
          d1   == XDiv(XAdd(FLog(s, k), Num(FMul(FMul(sig, sig), t) \div 2)), vol)
          d2   == XSub(d1, vol)
          disc == FMul(k, FExp(-FMul(ToFix(r), t)))
          zdiv == vol[1] = "num" /\ vol[2] = 0
      IN  IF option_type = "Call"
          THEN Return(XSub(XScale(s, FCdf(d1)), XScale(disc, FCdf(d2))),
                      FCdf(d1), zdiv)
          ELSE Return(XSub(XScale(disc, FCdf(d2)), XScale(s, FCdf(XNeg(d1)))),
                      XNeg(FCdf(XNeg(d1))), zdiv)

black_price(S, K, T, r, sigma, option_type) ==
    IF degenerate(T, sigma) THEN Return(Num(0), Num(0), FALSE)
    ELSE IF ToFix(K) = 0 THEN Return(Num(0), Num(0), TRUE)  \* ZeroDivisionError caught
    ELSE
      LET s    == ToFix(S)
          k    == ToFix(K)
          sig  == ToFix(sigma)
          t    == ToFix(T)
          vol  == IF FSqrt(t)[1] = "nan" THEN NaN ELSE Num(FMul(sig, FSqrt(t)[2]))
          d1   == XDiv(XAdd(FLog(s, k), Num(FMul(FMul(sig, sig), t) \div 2)), vol)
          d2   == XSub(d1, vol)
          disc == FMul(k, FExp(-FMul(ToFix(r), t)))
          zdiv == vol[1] = "num" /\ vol[2] = 0
      IN  IF option_type = "Call"
          THEN Return(XSub(XScale(s, FCdf(d1)), XScale(disc, FCdf(d2))),
                      FCdf(d1), zdiv)
          ELSE Return(XSub(XScale(disc, FCdf(XNeg(d2))), XScale(s, FCdf(XNeg(d1)))),
                      XNeg(FCdf(XNeg(d1))), zdiv)

\* Arguments black_price is applied to.
PricerS == { << 0, 0 >>, << 9500, 0 >>, << 1, 4 >> }

PricerK == { << 0, 0 >>, << 9500, 0 >>, << 1, 4 >> }

PricerT == { << -1, 0 >>, << 0, 0 >>, << 1, -10 >>, << 25, -2 >>, << 5, -1 >> }

PricerR == { << 0, 0 >>, << 4, -2 >> }

PricerSigma ==
    { << -2, -1 >>, << 0, 0 >>, << 1, -10 >>, << 2, -2 >>, << 18, -2 >>, << 3, -1 >> }

-----------------------------------------------------------------------------
(* CapitalAndRiskEvaluator: remaining liquid capital and the margin-call   *)
(* verdict of a scenario.                                                  *)

\* Slip: a remaining capital of exactly 0 is counted as a margin call.
evaluate_non_strict(starting_capital, margin_blocked, net_pnl_total) ==
    LET remaining_capital == RAdd(RSub(starting_capital, margin_blocked), net_pnl_total)
    IN  [ remaining_capital |-> remaining_capital,
          margin_call       |-> RLe(remaining_capital, Zero) ]

\* remaining_capital = starting_capital - margin_blocked + net_pnl_total;
\* margin_call = remaining_capital < 0
evaluate(starting_capital, margin_blocked, net_pnl_total) ==
    LET remaining_capital == RAdd(RSub(starting_capital, margin_blocked), net_pnl_total)
    IN  [ remaining_capital |-> remaining_capital,
          margin_call       |-> RLt(remaining_capital, Zero) ]

\* Arguments the evaluation is applied to.
StartingCapitals == { Zero, Q(1, 1), Q(6570000, 1), Q(11810000, 1), Q(14860000, 1) }

MarginsBlocked == { Zero, Q(1, 1), Q(6570000, 1), Q(8000000, 1), Q(14860000, 1) }

ScenarioPnls == { Q(-5240000, 1), Q(-1500000, 1), Q(-1, 1), Zero, Q(2324065, 1) }

-----------------------------------------------------------------------------
(* The state after the first script run of a session.                      *)

Init ==
    /\ position_data_editor = default_position_data
    /\ position_size_tons = Unset
    /\ avg_holding_price = Unset
    /\ current_funds_usd = Unset
    /\ current_margin_usd = Unset
    /\ current_pnl_usd = Unset
    /\ available_quota_usd = Unset
    /\ funding_limit_usd = Q(29200000, 1)
    /\ lme_margin_per_lot_usd = Q(20000, 1)
    /\ lme_tons_per_lot = Q(25, 1)
    /\ vol_bid_tmp = VolBidDefault
    /\ hedge_ratio = Q(1, 2)
    /\ tab2_out = tab2(Zero, Q(25, 1), Q(20000, 1),
                       session_get(Unset, VolBidDefault), Q(1, 2))
    /\ report_data = dict_update(
           tab1_report(Unset, Unset, Unset, Unset, Unset, Q(29200000, 1)),
           tab2_report(tab2_out, hedge_ratio, Unset))
    /\ tab5_out = None
    /\ pricer_in = None
    /\ pricer_out = None
    /\ capital_state = None

-----------------------------------------------------------------------------
(* Script runs.                                                            *)

\* Tabs 2 and 3 of a run in which neither the Hedging Ratio slider nor the
\* Volatility Bid input was touched: tab 2 computes its risk figures for the
\* position of the run and tab 3 writes back the Volatility Bid it holds.
Tab2Run(size) ==
    /\ tab2_out' = tab2(getattr(size), lme_tons_per_lot, lme_margin_per_lot_usd,
                        session_get(vol_bid_tmp, VolBidDefault), hedge_ratio)
    /\ UNCHANGED << vol_bid_tmp, hedge_ratio >>

\* The user clicks "Update Position Data" with edit e pending in the data
\* editor: the block of the button, then st.rerun() and the rerun's tab 1.
UpdatePositionData(e) ==
    LET edited_df == data_editor(editable_df, e)
        total_balance == ColSum(edited_df, "BalanceFunds")
        total_credit  == ColSum(edited_df, "OpenPositionLimit")
        total_float   == ColSum(edited_df, "VariableMargin")
        total_margin  == ColSum(edited_df, "InitialMargin")
        total_pnl     == ColSum(edited_df, "UnrealizedPnL")
    IN  /\ position_data_editor' = updated_df(edited_df)
        /\ position_size_tons' = total_tons(edited_df)
        /\ avg_holding_price' = total_avg_price(edited_df)
        /\ current_funds_usd' = total_funds(edited_df)
        /\ current_margin_usd' = total_margin
        /\ current_pnl_usd' = total_pnl
        /\ available_quota_usd' = total_credit
        /\ Tab2Run(position_size_tons')
        /\ report_data' = dict_update(dict_update(report_data,
               tab1_report(position_size_tons', avg_holding_price',
                           current_funds_usd', current_margin_usd',
                           current_pnl_usd', funding_limit_usd)),
               tab2_report(tab2_out', hedge_ratio', avg_holding_price'))
        /\ tab5_out' = None
        /\ UNCHANGED << funding_limit_usd, lme_vars, pricer_vars, capital_state >>

\* Slip: the edited table is written back to the session on every run,
\* without the click.
EditPositionData_autosave(e) ==
    LET edited_df == data_editor(editable_df, e)
    IN  /\ position_data_editor' = updated_df(edited_df)
        /\ Tab2Run(position_size_tons)
        /\ report_data' = dict_update(dict_update(report_data,
               tab1_report(position_size_tons, avg_holding_price,
                           current_funds_usd, current_margin_usd,
                           current_pnl_usd, funding_limit_usd)),
               tab2_report(tab2_out', hedge_ratio', avg_holding_price))
        /\ tab5_out' = None
        /\ UNCHANGED << position_vars, funding_limit_usd, lme_vars, pricer_vars,
                        capital_state >>

\* The user edits the position table without clicking a button: the run
\* shows the edited table and stores nothing of it.
EditPositionData(e) ==
    LET edited_df == data_editor(editable_df, e)
    IN  /\ Len(edited_df) >= 0    \* the edited table is shown, nothing more
        /\ Tab2Run(position_size_tons)
        /\ report_data' = dict_update(dict_update(report_data,
               tab1_report(position_size_tons, avg_holding_price,
                           current_funds_usd, current_margin_usd,
                           current_pnl_usd, funding_limit_usd)),
               tab2_report(tab2_out', hedge_ratio', avg_holding_price))
        /\ tab5_out' = None
        /\ UNCHANGED << position_data_editor, position_vars, funding_limit_usd,
                        lme_vars, pricer_vars, capital_state >>

\* The user changes the funding limit in the sidebar.
ChangeFundingLimit(funding_limit_millions) ==
    /\ funding_limit_usd' = limit_usd(funding_limit_millions)
    /\ Tab2Run(position_size_tons)
    /\ report_data' = dict_update(dict_update(report_data,
           tab1_report(position_size_tons, avg_holding_price,
                       current_funds_usd, current_margin_usd,
                       current_pnl_usd, funding_limit_usd')),
           tab2_report(tab2_out', hedge_ratio', avg_holding_price))
    /\ tab5_out' = None
    /\ UNCHANGED << position_data_editor, position_vars, lme_vars, pricer_vars, capital_state >>

\* The user clicks "Calculate Plan" with the given widget values.
CalculatePlan(target_price, additional_tons) ==
    LET p == plan(getattr(position_size_tons), getattr(avg_holding_price),
                  getattr(current_funds_usd), funding_limit_usd,
                  lme_tons_per_lot, lme_margin_per_lot_usd,
                  target_price, additional_tons)
    IN  /\ tab5_out' = p
        /\ Tab2Run(position_size_tons)
        /\ report_data' = dict_update(
               dict_update(dict_update(report_data,
                   tab1_report(position_size_tons, avg_holding_price,
                               current_funds_usd, current_margin_usd,
                               current_pnl_usd, funding_limit_usd)),
                   tab2_report(tab2_out', hedge_ratio', avg_holding_price)),
               [ planning_scenario |-> planning_scenario(p) ])
        /\ UNCHANGED << position_data_editor, position_vars, funding_limit_usd,
                        lme_vars, pricer_vars, capital_state >>

\* Slip: tab 2 reads the Volatility Bid the run has just been given.
ChangeVolatilityBid_read_new(vol_bid) ==
    /\ tab2_out' = tab2(getattr(position_size_tons), lme_tons_per_lot,
                        lme_margin_per_lot_usd, vol_bid, hedge_ratio)
    /\ vol_bid_tmp' = vol_bid
    /\ report_data' = dict_update(dict_update(report_data,
           tab1_report(position_size_tons, avg_holding_price,
                       current_funds_usd, current_margin_usd,
                       current_pnl_usd, funding_limit_usd)),
           tab2_report(tab2_out', hedge_ratio, avg_holding_price))
    /\ tab5_out' = None
    /\ UNCHANGED << position_data_editor, position_vars, funding_limit_usd,
                    lme_vars, pricer_vars, capital_state, hedge_ratio >>

\* The user enters a Volatility Bid in tab 3: tab 2 runs first and reads
\* vol_bid_tmp as the previous run left it, then tab 3 stores the new value.
ChangeVolatilityBid(vol_bid) ==
    /\ tab2_out' = tab2(getattr(position_size_tons), lme_tons_per_lot,
                        lme_margin_per_lot_usd,
                        session_get(vol_bid_tmp, VolBidDefault), hedge_ratio)
    /\ vol_bid_tmp' = vol_bid
    /\ report_data' = dict_update(dict_update(report_data,
           tab1_report(position_size_tons, avg_holding_price,
                       current_funds_usd, current_margin_usd,
                       current_pnl_usd, funding_limit_usd)),
           tab2_report(tab2_out', hedge_ratio, avg_holding_price))
    /\ tab5_out' = None
    /\ UNCHANGED << position_data_editor, position_vars, funding_limit_usd,
                    lme_vars, pricer_vars, capital_state, hedge_ratio >>

\* The user moves the Hedging Ratio slider of the sidebar.
ChangeHedgeRatio(ratio) ==
    /\ hedge_ratio' = ratio
    /\ tab2_out' = tab2(getattr(position_size_tons), lme_tons_per_lot,
                        lme_margin_per_lot_usd,
                        session_get(vol_bid_tmp, VolBidDefault), ratio)
    /\ report_data' = dict_update(dict_update(report_data,
           tab1_report(position_size_tons, avg_holding_price,
                       current_funds_usd, current_margin_usd,
                       current_pnl_usd, funding_limit_usd)),
           tab2_report(tab2_out', ratio, avg_holding_price))
    /\ tab5_out' = None
    /\ UNCHANGED << position_data_editor, position_vars, funding_limit_usd,
                    lme_vars, pricer_vars, capital_state, vol_bid_tmp >>

\* A call of black_price(S, K, T, r, sigma, option_type).
BlackPrice(S, K, T, r, sigma, option_type) ==
    /\ pricer_in' = [ S |-> S, K |-> K, T |-> T, r |-> r, sigma |-> sigma,
                      option_type |-> option_type ]
    /\ pricer_out' = black_price(S, K, T, r, sigma, option_type)
    /\ UNCHANGED << position_data_editor, position_vars, funding_limit_usd,
                    lme_vars, report_data, tab5_out, capital_state, tab2_vars >>

\* An evaluation of the capital left under a scenario.
Evaluate(starting_capital, margin_blocked, net_pnl_total) ==
    /\ capital_state' = [ starting_capital |-> starting_capital,
                          margin_blocked   |-> margin_blocked,
                          net_pnl_total    |-> net_pnl_total ]
                        @@ evaluate(starting_capital, margin_blocked, net_pnl_total)
    /\ UNCHANGED << position_data_editor, position_vars, funding_limit_usd,
                    lme_vars, report_data, tab5_out, pricer_vars, tab2_vars >>

Next ==
    \/ \E e \in Edits(editable_df) : UpdatePositionData(e)
    \/ \E e \in Edits(editable_df) : EditPositionData(e)
    \/ \E m \in FundingLimitInputs : ChangeFundingLimit(m)
    \/ \E t \in TargetPrices, a \in AdditionalTons : CalculatePlan(t, a)

Spec == Init /\ [][Next]_vars

\* black_price as a function of its arguments alone.
NextPricer ==
    \E S \in PricerS, K \in PricerK, T \in PricerT, r \in PricerR,
       sigma \in PricerSigma, option_type \in { "Call", "Put" } :
        BlackPrice(S, K, T, r, sigma, option_type)

\* The runs that change what the funding check of tab 1 reads.
NextFunding ==
    \/ \E e \in Edits(editable_df) : UpdatePositionData(e)
    \/ \E m \in FundingLimitSteps : ChangeFundingLimit(m)

SpecFunding == Init /\ [][NextFunding]_vars

\* The runs that change what tab 2's risk figures read.
NextRisk ==
    \/ \E e \in Edits(editable_df) : UpdatePositionData(e)
    \/ \E vol_bid \in VolBids : ChangeVolatilityBid(vol_bid)
    \/ \E ratio \in HedgeRatios : ChangeHedgeRatio(ratio)

SpecRisk == Init /\ [][NextRisk]_vars

SpecPricer == Init /\ [][NextPricer]_vars

\* The margin-call evaluation as a function of its arguments alone.
NextCapital ==
    \E starting_capital \in StartingCapitals, margin_blocked \in MarginsBlocked,
       net_pnl_total \in ScenarioPnls :
        Evaluate(starting_capital, margin_blocked, net_pnl_total)

SpecCapital == Init /\ [][NextCapital]_vars

-----------------------------------------------------------------------------
(* Properties.                                                             *)

PlanShown == tab5_out # None

PositionUpdated == position_size_tons # Unset

\* The constituent rows of the stored table: all rows but the last.
Constituents == Front(position_data_editor)

\* C1: Calculate Plan reports the plan as feasible if and only if the
\* required funds are at most the funding limit and the remaining funds are
\* not negative; the boundaries required = limit and remaining = 0 are
\* feasible, and required > limit is infeasible whatever remaining is.  The
\* stored feasibility message says the same.
C1_FeasibleIff ==
    PlanShown =>
        LET within == RLe(tab5_out.required_funds_usd, tab5_out.funding_limit_usd)
            solvent == RLe(Zero, tab5_out.remaining_funds_usd)
        IN  /\ tab5_out.is_feasible <=> (within /\ solvent)
            /\ (tab5_out.feasibility_message = << "Plan is feasible." >>)
                   <=> (within /\ solvent)
            /\ report_data.planning_scenario.feasibility
                   = tab5_out.feasibility_message

\* C1 witness: a plan whose required funds exceed the limit while the
\* remaining funds are positive, reported as not feasible.
C1_Witness ==
    /\ PlanShown
    /\ RLt(tab5_out.funding_limit_usd, tab5_out.required_funds_usd)
    /\ RLt(Zero, tab5_out.remaining_funds_usd)
    /\ ~ tab5_out.is_feasible

\* C3: new_total_tons = position_size_tons + additional_tons; when it is
\* positive, new_avg_price is the weighted average of the current position at
\* its average price and the additional tons at the target price; when it is
\* zero, new_avg_price is the current average price.
C3_NewAverage ==
    PlanShown =>
        /\ RSub(tab5_out.new_total_tons, tab5_out.additional_tons)
               = getattr(position_size_tons)
        /\ RLt(Zero, tab5_out.new_total_tons) =>
               RMul(tab5_out.new_avg_price, tab5_out.new_total_tons)
                   = RAdd(RMul(getattr(position_size_tons), getattr(avg_holding_price)),
                          RMul(tab5_out.additional_tons, tab5_out.target_price))
        /\ tab5_out.new_total_tons = Zero =>
               tab5_out.new_avg_price = getattr(avg_holding_price)

\* C3 witness: a plan that adds tons to a positive position at a target price
\* different from the average holding price.
C3_Witness ==
    /\ PlanShown
    /\ PositionUpdated
    /\ RLt(Zero, position_size_tons)
    /\ RLt(Zero, tab5_out.additional_tons)
    /\ tab5_out.target_price # avg_holding_price

\* C4: new_margin_usd = (new_total_tons / tons_per_lot) * margin_per_lot,
\* estimated_pnl_usd = (target_price - new_avg_price) * new_total_tons and
\* required_funds_usd = new_margin_usd - estimated_pnl_usd.
C4_MarginPnlRequired ==
    PlanShown =>
        /\ RMul(tab5_out.new_margin_usd, lme_tons_per_lot)
               = RMul(tab5_out.new_total_tons, lme_margin_per_lot_usd)
        /\ tab5_out.estimated_pnl_usd
               = RSub(RMul(tab5_out.target_price, tab5_out.new_total_tons),
                      RMul(tab5_out.new_avg_price, tab5_out.new_total_tons))
        /\ RAdd(tab5_out.required_funds_usd, tab5_out.estimated_pnl_usd)
               = tab5_out.new_margin_usd

\* C4 witness: a plan with a positive margin and a non-zero estimated PnL.
C4_Witness ==
    /\ PlanShown
    /\ RLt(Zero, tab5_out.new_margin_usd)
    /\ tab5_out.estimated_pnl_usd # Zero

\* C5: remaining_funds_usd = current_funds_usd - new_margin_usd -
\* estimated_pnl_usd, where current_funds_usd is balance + open-position
\* credit limit + variable margin summed over the current position's rows.
C5_RemainingFunds ==
    PlanShown =>
        /\ RAdd(RAdd(tab5_out.remaining_funds_usd, tab5_out.estimated_pnl_usd),
                tab5_out.new_margin_usd) = getattr(current_funds_usd)
        /\ PositionUpdated =>
               current_funds_usd
                   = RAdd(ColSum(Constituents, "BalanceFunds"),
                          RAdd(ColSum(Constituents, "OpenPositionLimit"),
                               ColSum(Constituents, "VariableMargin")))

\* C5 witness: a plan on an updated position with non-zero funds and a
\* non-zero estimated PnL.
C5_Witness ==
    /\ PlanShown
    /\ PositionUpdated
    /\ current_funds_usd # Zero
    /\ tab5_out.estimated_pnl_usd # Zero

Within1Pct(calc_val, ref_val) ==
    RLe(RMul(RAbs(RSub(calc_val, ref_val)), Q(100, 1)), RAbs(ref_val))

\* The precondition of the worked example: the position is the three default
\* account rows (9500 tons), the target price 10130, 500 additional tons.
WorkedExample ==
    /\ PlanShown
    /\ PositionUpdated
    /\ Constituents = Front(default_position_data)
    /\ tab5_out.target_price = Q(10130, 1)
    /\ tab5_out.additional_tons = Q(500, 1)

\* C6: in the worked example new_total_tons = 10000, new_avg_price is within
\* 1% of 9897.59, new_margin_usd = 8,000,000, estimated_pnl_usd is within 1%
\* of 2,324,100 and of 2,320,000, and the in-app Excel verification is shown
\* and reports that all values match.
C6_WorkedExample ==
    WorkedExample =>
        /\ position_size_tons = Q(9500, 1)
        /\ tab5_out.new_total_tons = Q(10000, 1)
        /\ Within1Pct(tab5_out.new_avg_price, Q(989759, 100))
        /\ tab5_out.new_margin_usd = Q(8000000, 1)
        /\ Within1Pct(tab5_out.estimated_pnl_usd, Q(2324100, 1))
        /\ Within1Pct(tab5_out.estimated_pnl_usd, Q(2320000, 1))
        /\ Within1Pct(tab5_out.required_funds_usd, Q(5680000, 1))
        /\ Within1Pct(tab5_out.remaining_funds_usd, Q(4540000, 1))
        /\ tab5_out.verification.shown
        /\ tab5_out.verification.all_match

\* C6 witness: the worked example has been calculated.
C6_Witness == WorkedExample /\ tab5_out.verification.shown

\* C7 (as claimed): after Update Position Data, weighted-average price times
\* total tons equals the sum of tons_i * price_i over the rows, within a
\* relative tolerance of 1e-6, for every row set.
C7_AvgTimesTons ==
    PositionUpdated =>
        LET sum  == ValueSum(Constituents)
            diff == RSub(RMul(avg_holding_price, position_size_tons), sum)
        IN  IF sum = Zero THEN diff = Zero
            ELSE RLe(RDiv(RAbs(diff), RAbs(sum)), Q(1, 1000000))

\* C8: the weighted-average holding price is sum(tons_i * price_i) /
\* total_tons when total_tons > 0 and exactly 0 otherwise; an empty row set
\* gives total_tons = 0 and average price 0.
C8_AvgPriceOrZero ==
    PositionUpdated =>
        /\ IF RLt(Zero, ColSum(Constituents, "Tons"))
           THEN RMul(avg_holding_price, ColSum(Constituents, "Tons"))
                    = ValueSum(Constituents)
           ELSE avg_holding_price = Zero
        /\ Constituents = << >> =>
               position_size_tons = Zero /\ avg_holding_price = Zero
        /\ Last(position_data_editor).HoldingPrice = avg_holding_price

\* C8 witness: Update Position Data was clicked on an empty row set.
C8_Witness == PositionUpdated /\ Constituents = << >>

\* C9: after Update Position Data the session values are the aggregates of the
\* constituent rows: tons, initial margin and unrealized PnL are the column
\* sums, and current funds are balance + credit limit + variable margin.
C9_SessionAggregates ==
    PositionUpdated =>
        /\ position_size_tons = ColSum(Constituents, "Tons")
        /\ current_margin_usd = ColSum(Constituents, "InitialMargin")
        /\ current_pnl_usd = ColSum(Constituents, "UnrealizedPnL")
        /\ RSub(RSub(RSub(current_funds_usd, ColSum(Constituents, "BalanceFunds")),
                     ColSum(Constituents, "OpenPositionLimit")),
                ColSum(Constituents, "VariableMargin")) = Zero

\* C9 witness: an updated position of at least two rows whose balance, credit
\* limit and variable margin are all non-zero in total.
C9_Witness ==
    /\ PositionUpdated
    /\ Len(Constituents) >= 2
    /\ ColSum(Constituents, "BalanceFunds") # Zero
    /\ ColSum(Constituents, "OpenPositionLimit") # Zero
    /\ ColSum(Constituents, "VariableMargin") # Zero

\* C10: the stored table always consists of the constituent rows followed by
\* exactly one Total row, its last row, and no aggregation counts a Total
\* row: after an update the session tonnage and the Total row are the sums of
\* the rows before the last.  (Account names typed by the user are taken to
\* differ from "Total".)
C10_OneTotalRowLast ==
    /\ Len(position_data_editor) >= 1
    /\ Last(position_data_editor).Account = "Total"
    /\ \A k \in 1..(Len(position_data_editor) - 1) :
           position_data_editor[k].Account # "Total"
    /\ PositionUpdated =>
           /\ position_size_tons = ColSum(Constituents, "Tons")
           /\ Last(position_data_editor).Tons = ColSum(Constituents, "Tons")
           /\ Last(position_data_editor).BalanceFunds
                  = ColSum(Constituents, "BalanceFunds")

\* C10 witness: after several updates with removals and edits the table holds
\* two edited rows and the Total row.
C10_Witness ==
    /\ PositionUpdated
    /\ Len(position_data_editor) = 3
    /\ position_data_editor[1].Account = "HEDGE"
    /\ position_data_editor[2].Account = "HEDGE"

\* C2: black_price returns exactly (0.0, 0.0) whenever T <= EPSILON or
\* sigma <= EPSILON, for both option types and any S, K and r, and it gets
\* there without evaluating a division by zero.
C2_DegenerateIsZero ==
    (pricer_in # None
     /\ (DLe(pricer_in.T, EPSILON) \/ DLe(pricer_in.sigma, EPSILON))) =>
        /\ pricer_out.price = Num(0)
        /\ pricer_out.delta = Num(0)
        /\ ~ pricer_out.zero_division

\* C2 witness: a call with sigma = 0, a positive expiry and a zero strike.
C2_Witness ==
    /\ pricer_in # None
    /\ pricer_in.sigma = << 0, 0 >>
    /\ pricer_in.T = << 25, -2 >>
    /\ pricer_in.K = << 0, 0 >>
    /\ pricer_out.price = Num(0)

\* |x - y| <= 1e-6 * |y|, the relative tolerance of the weighted-average
\* invariant.
WithinPpm(x, y) ==
    IF y = Zero THEN x = Zero
    ELSE LET ratio == RDiv(RAbs(RSub(x, y)), RAbs(y))
         IN  ratio[1] * 1000000 <= ratio[2]

\* C11 (as claimed): in every reachable state, the initial one included, the
\* Total row of the stored table equals the field-wise sums of the other rows
\* and their tons-weighted average holding price (0 when the total tons are
\* 0, within a relative tolerance of 1e-6), and the rows handed to the data
\* editor never include the Total row.
C11_TotalRowIsAggregate ==
    LET total == Last(position_data_editor)
        tons  == ColSum(Constituents, "Tons")
    IN  /\ total.Account = "Total"
        /\ total.Tons = tons
        /\ total.BalanceFunds = ColSum(Constituents, "BalanceFunds")
        /\ total.OpenPositionLimit = ColSum(Constituents, "OpenPositionLimit")
        /\ total.VariableMargin = ColSum(Constituents, "VariableMargin")
        /\ total.InitialMargin = ColSum(Constituents, "InitialMargin")
        /\ total.UnrealizedPnL = ColSum(Constituents, "UnrealizedPnL")
        /\ IF tons = Zero THEN total.HoldingPrice = Zero
           ELSE WithinPpm(total.HoldingPrice, RDiv(ValueSum(Constituents), tons))
        /\ \A i \in 1..Len(editable_df) : editable_df[i].Account # "Total"

\* C12 (as claimed): inputs outside the preconditions are rejected and
\* produce no numbers: a call of black_price with T < 0 returns no price, and
\* Update Position Data never stores an aggregate of rows that include
\* negative tons.
C12_InvalidInputRejected ==
    /\ (pricer_in # None /\ pricer_in.T[1] < 0) => pricer_out = None
    /\ PositionUpdated =>
           \A i \in 1..Len(Constituents) : RLe(Zero, Constituents[i].Tons)

\* C13: an infeasible plan is a result, not an error.  In every reachable
\* state the calculation of Calculate Plan completes for every target price
\* and additional tonnage with finite required and remaining funds and a
\* feasibility message, and the state the click leaves holds a planning_scenario
\* with the inputs of the click, the computed required and remaining funds
\* and a feasibility message that begins "Plan is feasible." or "Plan is NOT
\* feasible."; the latter whenever required funds exceed the limit or the
\* remaining funds are negative.
C13_InfeasibleIsResult ==
    /\ \A t \in TargetPrices, a \in AdditionalTons :
           LET p == plan(getattr(position_size_tons), getattr(avg_holding_price),
                         getattr(current_funds_usd), funding_limit_usd,
                         lme_tons_per_lot, lme_margin_per_lot_usd, t, a)
           IN  /\ p.required_funds_usd[2] > 0
               /\ p.remaining_funds_usd[2] > 0
               /\ p.feasibility_message[1]
                      \in { "Plan is feasible.", "Plan is NOT feasible." }
    /\ PlanShown =>
           /\ "planning_scenario" \in DOMAIN report_data
           /\ LET stored     == report_data.planning_scenario
                  infeasible == \/ RLt(funding_limit_usd, tab5_out.required_funds_usd)
                                \/ RLt(tab5_out.remaining_funds_usd, Zero)
              IN  /\ stored.target_price = tab5_out.target_price
                  /\ stored.additional_tons = tab5_out.additional_tons
                  /\ stored.required_funds_usd = tab5_out.required_funds_usd
                  /\ stored.remaining_funds_usd = tab5_out.remaining_funds_usd
                  /\ Len(stored.feasibility) >= 1
                  /\ stored.feasibility[1] =
                         IF infeasible THEN "Plan is NOT feasible."
                         ELSE "Plan is feasible."

\* C13 witness: a plan that fails both tests has been calculated and stored
\* with its two reasons.
C13_Witness ==
    /\ PlanShown
    /\ RLt(funding_limit_usd, tab5_out.required_funds_usd)
    /\ RLt(tab5_out.remaining_funds_usd, Zero)
    /\ report_data.planning_scenario.feasibility =
           << "Plan is NOT feasible.",
              "Required funds exceed the funding limit.",
              "Plan would result in negative available funds." >>

\* C14 (as claimed): no result outlives the inputs it was computed from.  In
\* every reachable state the report entries of the position are those of the
\* current session values and funding limit, and a stored planning_scenario
\* is the one Calculate Plan computes from the current position and funding
\* limit for its target price and additional tons.
C14_NothingStale ==
    /\ report_data.position_size_tons = getattr(position_size_tons)
    /\ report_data.avg_holding_price = getattr(avg_holding_price)
    /\ report_data.current_funds_usd = getattr(current_funds_usd)
    /\ report_data.funding_limit_usd = funding_limit_usd
    /\ "planning_scenario" \in DOMAIN report_data =>
           LET stored == report_data.planning_scenario
           IN  stored = planning_scenario(
                   plan(getattr(position_size_tons), getattr(avg_holding_price),
                        getattr(current_funds_usd), funding_limit_usd,
                        lme_tons_per_lot, lme_margin_per_lot_usd,
                        stored.target_price, stored.additional_tons))

\* The data editor left as it is.
NoEdit == [ op |-> "none", i |-> 0, row |-> None ]

\* C15: evaluations are idempotent.  A click on Update Position Data with no
\* edit pending, in a session where the button was clicked before, changes
\* neither the stored table nor any session position value; a click on
\* Calculate Plan with the target price and additional tons of the plan on
\* display stores the planning_scenario that is already stored.
C15_Idempotent ==
    [][ /\ (PositionUpdated /\ UpdatePositionData(NoEdit)) =>
               UNCHANGED << position_data_editor, position_vars >>
        /\ \A t \in TargetPrices, a \in AdditionalTons :
               ( /\ PlanShown
                 /\ tab5_out.target_price = t
                 /\ tab5_out.additional_tons = a
                 /\ CalculatePlan(t, a) ) =>
                   /\ report_data'.planning_scenario = report_data.planning_scenario
                   /\ tab5_out' = tab5_out ]_vars

\* C15 witness: the position was updated with an edited table and a plan
\* for it is on display and stored, the state in which a second click of
\* either button repeats the evaluation.
C15_Witness ==
    /\ PositionUpdated
    /\ PlanShown
    /\ \E i \in 1..Len(Constituents) : Constituents[i].Account = "HEDGE"
    /\ position_data_editor = updated_df(Constituents)
    /\ report_data.planning_scenario = planning_scenario(tab5_out)
    /\ tab5_out.position_size_tons = position_size_tons

\* The arguments are outside the degenerate guard and within the stated
\* domain: T > EPSILON, sigma > EPSILON, S > 0, K > 0, r >= 0.
NonDegenerate ==
    /\ pricer_in # None
    /\ ~ DLe(pricer_in.T, EPSILON)
    /\ ~ DLe(pricer_in.sigma, EPSILON)
    /\ pricer_in.S[1] > 0
    /\ pricer_in.K[1] > 0
    /\ pricer_in.r[1] >= 0

\* The error of a price computed in fixed point: each of its two terms is a
\* price of at most 10^4 times a probability known to 1e-4.
PriceResolution == 2 * SCALE

\* C16 (as claimed): for every non-degenerate input black_price returns a
\* price >= 0 and a delta in [-1, 1], for Call and for Put.  The price is
\* tested against -PriceResolution, so that only a price that is negative
\* beyond the error of the arithmetic counts.
C16_PriceAndDeltaRange ==
    NonDegenerate =>
        /\ pricer_out.price[1] = "num"
        /\ pricer_out.price[2] >= - PriceResolution
        /\ pricer_out.delta[1] = "num"
        /\ pricer_out.delta[2] >= - SCALE
        /\ pricer_out.delta[2] <= SCALE

\* C17: for every non-degenerate input with S = K and r = 0 the price
\* black_price returns for one option type is the price it returns for the
\* other type on the same arguments.
C17_AtTheMoneyParity ==
    (NonDegenerate /\ pricer_in.S = pricer_in.K /\ pricer_in.r[1] = 0) =>
        LET other == IF pricer_in.option_type = "Call" THEN "Put" ELSE "Call"
        IN  pricer_out.price =
                black_price(pricer_in.S, pricer_in.K, pricer_in.T, pricer_in.r,
                            pricer_in.sigma, other).price

\* C17 witness: a put at the money with a zero rate has been priced, with a
\* positive price.
C17_Witness ==
    /\ NonDegenerate
    /\ pricer_in.S = pricer_in.K
    /\ pricer_in.r[1] = 0
    /\ pricer_in.option_type = "Put"
    /\ pricer_out.price[1] = "num"
    /\ pricer_out.price[2] > 0

\* C18: the remaining capital of an evaluation is starting capital - margin
\* blocked + scenario P&L total, and the margin call is raised exactly when
\* it is below 0: not at a remaining capital of 0, and at -1.
C18_MarginCallVerdict ==
    capital_state # None =>
        LET remaining == RAdd(RSub(capital_state.starting_capital,
                                   capital_state.margin_blocked),
                              capital_state.net_pnl_total)
        IN  /\ capital_state.remaining_capital = remaining
            /\ capital_state.margin_call <=> remaining[1] < 0
            /\ remaining = Zero => ~ capital_state.margin_call
            /\ remaining = Q(-1, 1) => capital_state.margin_call

\* C18 witness: the margin blocked and a scenario loss use up the starting
\* capital exactly, and no margin call is raised.
C18_Witness ==
    /\ capital_state # None
    /\ capital_state.starting_capital = Q(11810000, 1)
    /\ capital_state.margin_blocked = Q(6570000, 1)
    /\ capital_state.net_pnl_total = Q(-5240000, 1)
    /\ capital_state.remaining_capital = Zero
    /\ ~ capital_state.margin_call

\* C19: every run shows exactly one funding banner: the ALERT iff the
\* current funds exceed the funding limit; otherwise the high-utilization
\* warning iff the funds are more than 90% of a positive funding limit (the
\* utilization is 0 when the limit is 0); otherwise the within-limits
\* banner.  The funding limit is never negative.
C19_OneFundingBanner ==
    LET funds == getattr(current_funds_usd)
        limit == funding_limit_usd
        shown == funding_banners(funds, limit)
        over  == RLt(limit, funds)
        high  == RLt(Zero, limit) /\ RLt(RMul(limit, Q(9, 10)), funds)
    IN  /\ Len(shown) = 1
        /\ shown[1] = "ALERT" <=> over
        /\ shown[1] = "Warning" <=> (~ over /\ high)
        /\ shown[1] = "Within limits" <=> (~ over /\ ~ high)
        /\ RLe(Zero, limit)
        /\ limit = Zero => utilization(funds, limit) = Zero

\* C19 witness: the funds equal the funding limit, a utilization of 100%
\* that is not an excess: the warning is shown, not the ALERT.
C19_Witness ==
    /\ PositionUpdated
    /\ current_funds_usd = funding_limit_usd
    /\ RLt(Zero, funding_limit_usd)
    /\ funding_banners(current_funds_usd, funding_limit_usd) = << "Warning" >>

\* C20: until Update Position Data has been clicked, every calculation
\* reads the position as zero although the stored default table totals 9500
\* tons; a Calculate Plan in that state gives new_total_tons =
\* additional_tons, new_avg_price = target_price when additional_tons > 0,
\* an estimated PnL of 0 and remaining_funds_usd = -new_margin_usd.
C20_ZeroBeforeFirstUpdate ==
    ~ PositionUpdated =>
        /\ Last(position_data_editor).Tons = Q(9500, 1)
        /\ report_data.position_size_tons = Zero
        /\ report_data.avg_holding_price = Zero
        /\ report_data.current_funds_usd = Zero
        /\ report_data.current_margin_usd = Zero
        /\ report_data.current_pnl_usd = Zero
        /\ PlanShown =>
               /\ tab5_out.position_size_tons = Zero
               /\ tab5_out.avg_holding_price = Zero
               /\ tab5_out.current_funds_usd = Zero
               /\ tab5_out.new_total_tons = tab5_out.additional_tons
               /\ RLt(Zero, tab5_out.additional_tons) =>
                      tab5_out.new_avg_price = tab5_out.target_price
               /\ tab5_out.estimated_pnl_usd = Zero
               /\ tab5_out.remaining_funds_usd = RNeg(tab5_out.new_margin_usd)

\* C20 witness: a plan for 500 additional tons was calculated before any
\* update: 400,000 of margin and remaining funds of -400,000.
C20_Witness ==
    /\ ~ PositionUpdated
    /\ PlanShown
    /\ tab5_out.additional_tons = Q(500, 1)
    /\ tab5_out.new_avg_price = tab5_out.target_price
    /\ tab5_out.new_margin_usd = Q(400000, 1)
    /\ tab5_out.remaining_funds_usd = Q(-400000, 1)

\* C21: the stored table and the six session position values are written
\* only by the click on Update Position Data: every step that changes one of
\* them is a step of that click, so a run in which rows were edited, added
\* or removed without the click leaves them as they were.
C21_WrittenOnlyByUpdate ==
    [][ (\/ position_data_editor' # position_data_editor
         \/ position_vars' # position_vars)
        => \E e \in Edits(editable_df) : UpdatePositionData(e) ]_vars

\* C21 witness: after an update and a plan, a run without either click has
\* taken place (the plan is no longer on display) and the stored table and
\* session values are still those of the update.
C21_Witness ==
    /\ PositionUpdated
    /\ ~ PlanShown
    /\ "planning_scenario" \in DOMAIN report_data
    /\ Len(Constituents) < MaxRows
    /\ position_data_editor = updated_df(Constituents)
    /\ position_size_tons = Last(position_data_editor).Tons
    /\ current_funds_usd = report_data.current_funds_usd

\* C22: the planning_scenario entry of report_data is written only by
\* Calculate Plan.  A session starts without it; a step of any other action
\* neither adds, removes nor changes it; a Calculate Plan step stores the
\* scenario of the position and inputs of that click; so the exported report
\* has a planning section exactly when Calculate Plan was clicked before,
\* holding the figures of the latest such click.
C22_ScenarioWrittenOnlyByPlan ==
    /\ planning_section(report_data) = None
    /\ [][ LET is_plan == /\ tab5_out' # None
                          /\ CalculatePlan(tab5_out'.target_price,
                                           tab5_out'.additional_tons)
           IN  /\ ~ is_plan =>
                      planning_section(report_data') = planning_section(report_data)
               /\ is_plan =>
                      /\ planning_section(report_data') # None
                      /\ planning_section(report_data') = planning_scenario(tab5_out')
                      /\ tab5_out'.position_size_tons = getattr(position_size_tons)
                      /\ tab5_out'.current_funds_usd = getattr(current_funds_usd)
                      /\ tab5_out'.funding_limit_usd = funding_limit_usd ]_vars

\* C22 witness: the report holds a planning section computed from a
\* position of 0 tons although the position has since been updated to
\* other tons and no plan is on display.
C22_Witness ==
    /\ PositionUpdated
    /\ ~ PlanShown
    /\ planning_section(report_data) # None
    /\ position_size_tons # Zero
    /\ planning_section(report_data).new_total_tons
           = planning_section(report_data).additional_tons
    /\ report_data.position_size_tons = position_size_tons

\* C23 (as claimed): the estimated PnL of a plan does not depend on the
\* additional tons: for every position, target price and additional tons
\* it is position_size_tons * (target_price - avg_holding_price), so that
\* required and remaining funds are the new margin less, respectively the
\* current funds less the new margin and, that product.
C23_PnlIgnoresAdditionalTons ==
    PlanShown =>
        LET pnl == RMul(tab5_out.position_size_tons,
                        RSub(tab5_out.target_price, tab5_out.avg_holding_price))
        IN  /\ tab5_out.estimated_pnl_usd = pnl
            /\ tab5_out.required_funds_usd = RSub(tab5_out.new_margin_usd, pnl)
            /\ tab5_out.remaining_funds_usd =
                   RSub(RSub(tab5_out.current_funds_usd, tab5_out.new_margin_usd), pnl)

\* C24: in every run tab 2 computes its risk figures from the Volatility Bid
\* that vol_bid_tmp held when the run began, 17.92 on the first run of a
\* session: current_risk = lots * margin per lot * that value / 100,
\* risk_reduction = current_risk * hedge ratio, and report_data's
\* risk_reduction is that figure.  A Volatility Bid entered in a run is
\* stored by the run and read by tab 2 only in the next one.
C24_RiskReadsPreviousVolBid ==
    /\ tab2_out.vol_bid = Q(448, 25)
    /\ [][ LET lots == RDiv(getattr(position_size_tons'), lme_tons_per_lot)
               risk == RMul(RMul(lots, lme_margin_per_lot_usd),
                            RDiv(vol_bid_tmp, Q(100, 1)))
           IN  /\ tab2_out'.vol_bid = vol_bid_tmp
               /\ tab2_out'.current_risk = risk
               /\ tab2_out'.risk_reduction = RMul(risk, hedge_ratio')
               /\ report_data'.risk_reduction = tab2_out'.risk_reduction ]_vars

\* C24 witness: a Volatility Bid of 25 has been entered for a position of
\* non-zero tons, and the risk figures on display are still those of 17.92.
C24_Witness ==
    /\ PositionUpdated
    /\ vol_bid_tmp = Q(25, 1)
    /\ tab2_out.vol_bid = Q(448, 25)
    /\ tab2_out.current_risk # Zero
    /\ report_data.risk_reduction = tab2_out.risk_reduction

\* C25: the market constants are never modified: in every reachable state
\* lme_tons_per_lot = 25 and lme_margin_per_lot_usd = 20000, and the margin
\* of a plan and the risk figure of tab 2 are those of lots of 25 tons at
\* 20,000 USD a lot.
C25_MarketConstants ==
    /\ lme_tons_per_lot = Q(25, 1)
    /\ lme_margin_per_lot_usd = Q(20000, 1)
    /\ PlanShown =>
           tab5_out.new_margin_usd =
               RMul(RDiv(tab5_out.new_total_tons, Q(25, 1)), Q(20000, 1))
    /\ tab2_out.current_risk =
           RMul(RMul(RDiv(getattr(position_size_tons), Q(25, 1)), Q(20000, 1)),
                RDiv(tab2_out.vol_bid, Q(100, 1)))

\* C25 witness: after updates that left the MAREX row alone, a plan for 500
\* more tons is on display: 7000 tons, 280 lots, 5,600,000 USD of margin.
C25_Witness ==
    /\ PlanShown
    /\ position_size_tons = Q(6500, 1)
    /\ tab5_out.new_total_tons = Q(7000, 1)
    /\ tab5_out.new_margin_usd = Q(5600000, 1)
    /\ lme_tons_per_lot = Q(25, 1)
    /\ lme_margin_per_lot_usd = Q(20000, 1)

====
